---- MODULE Spec2Model ----
(***************************************************************************)
(* Model of src/services/geminiService.ts: five asynchronous operations,   *)
(* each of which builds a request, awaits the generation service once and  *)
(* reshapes the reply.                                                     *)
(*                                                                         *)
(* Representation.                                                         *)
(*  - A term is the sequence of its UTF-16 code units.                     *)
(*  - A text returned by the service is the sequence of its lexemes; the   *)
(*    empty string is <<>>.  A lexeme that is no punctuation, number,      *)
(*    literal or bare word stands for the JSON string literal with that    *)
(*    content.                                                             *)
(*  - A JavaScript number that may exceed 2^31 - 1 is the pair <<hi, lo>>  *)
(*    of its base-65536 digits (value hi * 65536 + lo).                    *)
(*  - An optional field is a sequence of length 0 (absent) or 1.           *)
(***************************************************************************)
EXTENDS Integers, Sequences, FiniteSets, TLC

VARIABLES pc, op, args, request, requests, reply, outcome, prevImage

vars == <<pc, op, args, request, requests, reply, outcome, prevImage>>

\* ------------------------------------------------------------------ bounds
MaxLen == 2
MaxParts == 2
MaxWords == 1

\* ------------------------------------------------------------- input sets
\* code units: space, 'A', 'a'
Alphabet == {32, 65, 97}

RECURSIVE SeqsUpTo(_, _)
SeqsUpTo(S, n) ==
    IF n = 0 THEN {<<>>}
    ELSE LET shorter == SeqsUpTo(S, n - 1)
         IN  shorter \cup {Append(s, x) : s \in {t \in shorter : Len(t) = n - 1}, x \in S}

\* "polygenelubricants"
Polygenelubricants ==
    <<112, 111, 108, 121, 103, 101, 110, 101, 108, 117, 98, 114, 105, 99, 97, 110, 116, 115>>

\* "gato", "perro"
Gato == <<103, 97, 116, 111>>
Perro == <<112, 101, 114, 114, 111>>

\* terms given to generateImage
Terms == SeqsUpTo(Alphabet, MaxLen) \cup {Polygenelubricants}

\* terms and words given to the text operations
Words == {Gato, Perro}

WordLists == SeqsUpTo(Words, MaxWords)

AnswerKinds == {"natural", "mistake", "funfact"}

Langs == {"English", "Spanish"}

\* ------------------------------------------------------ String.prototype
\* String.prototype.toLowerCase on one code unit (Basic Latin and Latin-1).
ToLowerCode(c) ==
    IF c >= 65 /\ c <= 90 THEN c + 32
    ELSE IF c >= 192 /\ c <= 222 /\ c # 215 THEN c + 32
    ELSE c

toLowerCase(str) == [i \in 1..Len(str) |-> ToLowerCode(str[i])]

\* WhiteSpace and LineTerminator code units stripped by String.prototype.trim.
IsWhiteSpace(c) ==
    \/ c \in {9, 10, 11, 12, 13, 32, 160, 5760, 8232, 8233, 8239, 8287, 12288, 65279}
    \/ (c >= 8192 /\ c <= 8202)

RECURSIVE TrimStart(_)
TrimStart(str) ==
    IF str # <<>> /\ IsWhiteSpace(Head(str)) THEN TrimStart(Tail(str)) ELSE str

RECURSIVE TrimEnd(_)
TrimEnd(str) ==
    IF str # <<>> /\ IsWhiteSpace(str[Len(str)])
    THEN TrimEnd(SubSeq(str, 1, Len(str) - 1))
    ELSE str

trim(str) == TrimEnd(TrimStart(str))

\* ----------------------------------------------------------------- getSeed
\* ToInt32 of the number hi * 65536 + lo given by (possibly out of range) digits.
ToInt32(hi, lo) ==
    LET l == lo % 65536
        h == (hi + (lo \div 65536)) % 65536
    IN  IF h >= 32768 THEN (h - 65536) * 65536 + l ELSE h * 65536 + l

\* hash << 5
Shl5(hash) ==
    ToInt32(((hash \div 65536) % 65536) * 32, (hash % 65536) * 32)

\* One iteration of the loop: hash = ((hash << 5) - hash) + char; hash = hash & hash.
\* The subtraction and addition are exact in JavaScript; `&` folds to int32.
HashStep(hash, char) ==
    LET s == Shl5(hash)
    IN  ToInt32(((s \div 65536) % 65536) - ((hash \div 65536) % 65536),
                (s % 65536) - (hash % 65536) + char)

\* for (let i = 0; i < str.length; i++) { ... }.  The test `next \in Int` makes
\* TLC compute the accumulator before the next iteration instead of passing
\* it on unevaluated.
RECURSIVE HashLoop(_, _, _)
HashLoop(str, i, hash) ==
    IF i > Len(str) THEN hash
    ELSE LET next == HashStep(hash, str[i])
         IN  IF next \in Int THEN HashLoop(str, i + 1, next) ELSE next

\* Math.abs of an int32, as base-65536 digits: Math.abs(-2^31) is 2^31.
MathAbs(hash) ==
    IF hash = -2147483647 - 1 THEN <<32768, 0>>
    ELSE LET a == IF hash < 0 THEN -hash ELSE hash
         IN  <<a \div 65536, a % 65536>>

getSeed(str) == MathAbs(HashLoop(str, 1, 0))

\* -------------------------------------------------------------- JS values
Absent == <<>>
Some(x) == <<x>>

JsNull == [type |-> "null"]
JsString(pieces) == [type |-> "string", val |-> pieces]
JsNumber(lexeme) == [type |-> "number", val |-> lexeme]
JsBoolean(lexeme) == [type |-> "boolean", val |-> lexeme]
JsArray(elements) == [type |-> "array", val |-> elements]
JsObject(members) == [type |-> "object", val |-> members]

JsError(name, message) == [name |-> name, message |-> message]

Pending == [kind |-> "pending"]
Return(v) == [kind |-> "return", value |-> v]
Throw(e) == [kind |-> "throw", error |-> e]

\* -------------------------------------------------------------- JSON.parse
Punctuators == {"{", "}", "[", "]", ":", ","}
NumberLexemes == {"0", "1"}
LiteralLexemes == {"true", "false", "null"}
\* lexemes that are no JSON token
BareWords == {"Sorry", "I", "cannot"}

IsStringLexeme(x) ==
    x \notin Punctuators \cup NumberLexemes \cup LiteralLexemes \cup BareWords

ParseFail == [ok |-> FALSE]
ParseOk(v, next) == [ok |-> TRUE, val |-> v, next |-> next]

RECURSIVE ParseValue(_, _)
RECURSIVE ParseMembers(_, _, _)
RECURSIVE ParseElements(_, _, _)

\* JSON value starting at lexeme i
ParseValue(text, i) ==
    IF i > Len(text) THEN ParseFail
    ELSE LET x == text[i]
         IN  CASE x = "{" ->
                    IF i + 1 <= Len(text) /\ text[i + 1] = "}"
                    THEN ParseOk(JsObject(<<>>), i + 2)
                    ELSE ParseMembers(text, i + 1, <<>>)
               [] x = "[" ->
                    IF i + 1 <= Len(text) /\ text[i + 1] = "]"
                    THEN ParseOk(JsArray(<<>>), i + 2)
                    ELSE ParseElements(text, i + 1, <<>>)
               [] x \in NumberLexemes -> ParseOk(JsNumber(x), i + 1)
               [] x \in {"true", "false"} -> ParseOk(JsBoolean(x), i + 1)
               [] x = "null" -> ParseOk(JsNull, i + 1)
               [] x \in {"}", "]", ":", ","} \cup BareWords -> ParseFail
               [] OTHER -> ParseOk(JsString(IF x = "" THEN <<>> ELSE <<x>>), i + 1)

\* members of an object from lexeme i on; a repeated key keeps its last value
ParseMembers(text, i, acc) ==
    IF i + 1 > Len(text) \/ ~IsStringLexeme(text[i]) \/ text[i + 1] # ":"
    THEN ParseFail
    ELSE LET v == ParseValue(text, i + 2)
         IN  IF ~v.ok \/ v.next > Len(text) THEN ParseFail
             ELSE LET acc2 == [k \in DOMAIN acc \cup {text[i]} |->
                                  IF k = text[i] THEN v.val ELSE acc[k]]
                  IN  CASE text[v.next] = "}" -> ParseOk(JsObject(acc2), v.next + 1)
                        [] text[v.next] = "," -> ParseMembers(text, v.next + 1, acc2)
                        [] OTHER -> ParseFail

\* elements of an array from lexeme i on
ParseElements(text, i, acc) ==
    LET v == ParseValue(text, i)
    IN  IF ~v.ok \/ v.next > Len(text) THEN ParseFail
        ELSE CASE text[v.next] = "]" -> ParseOk(JsArray(Append(acc, v.val)), v.next + 1)
               [] text[v.next] = "," -> ParseElements(text, v.next + 1, Append(acc, v.val))
               [] OTHER -> ParseFail

\* JSON.parse(text): the decoded value, or a SyntaxError
JSONParse(text) ==
    LET r == ParseValue(text, 1)
    IN  IF r.ok /\ r.next = Len(text) + 1
        THEN Return(r.val)
        ELSE Throw(JsError("SyntaxError", "Unexpected token"))

\* ------------------------------------------------------ the service's replies
\* texts the service may return
GoodText ==
    <<"{", "definition", ":", "correr", ",",
      "examples", ":", "[", "{", "target", ":", "I run", ",", "native", ":", "Yo corro", "}", "]", ",",
      "usageNote", ":", "muy comun", "}">>

TwoExamplesText ==
    <<"{", "definition", ":", "correr", ",",
      "examples", ":", "[", "{", "target", ":", "I run", ",", "native", ":", "Yo corro", "}", ",",
                            "{", "target", ":", "Run!", ",", "native", ":", "Corre!", "}", "]", ",",
      "usageNote", ":", "muy comun", "}">>

NoExamplesText ==
    <<"{", "definition", ":", "correr", ",", "examples", ":", "[", "]", ",",
      "usageNote", ":", "muy comun", "}">>

EmptyTargetText ==
    <<"{", "definition", ":", "correr", ",",
      "examples", ":", "[", "{", "target", ":", "", ",", "native", ":", "Yo corro", "}", "]", ",",
      "usageNote", ":", "muy comun", "}">>

NoUsageNoteText ==
    <<"{", "definition", ":", "correr", ",",
      "examples", ":", "[", "{", "target", ":", "I run", ",", "native", ":", "Yo corro", "}", "]", "}">>

NumberDefinitionText ==
    <<"{", "definition", ":", "1", ",",
      "examples", ":", "[", "{", "target", ":", "I run", ",", "native", ":", "Yo corro", "}", "]", ",",
      "usageNote", ":", "muy comun", "}">>

ValidJsonTexts ==
    { GoodText, TwoExamplesText, NoExamplesText, EmptyTargetText, NoUsageNoteText,
      NumberDefinitionText,
      <<"{", "}">>, <<"[", "]">>, <<"null">>, <<"1">>, <<"Person A: Hola (Hello)">> }

InvalidJsonTexts ==
    { <<"{">>, <<"Sorry">>, <<"Sorry", ",", "I", "cannot">>, <<"{", "}", "}">>,
      <<"{", "definition", ":", "}">>, <<"[", "1", ",", "]">>,
      <<"{", "definition", ":", "correr", ",", "}">>,
      <<"{", "definition", "correr", "}">> }

Texts == {<<>>} \cup ValidJsonTexts \cup InvalidJsonTexts

\* a response that carries text: response.text is absent, empty or one of Texts
TextResponses ==
    {[text |-> Absent, candidates |-> Absent]}
        \cup {[text |-> Some(t), candidates |-> Absent] : t \in Texts}

Payloads == {"AAAA", "BBBB"}

TextPart == [text |-> Some(<<"Here is your picture">>), inlineData |-> Absent]
InlinePart(d) == [text |-> Absent, inlineData |-> Some([mimeType |-> "image/png", data |-> d])]

PartKinds == {TextPart} \cup {InlinePart(d) : d \in Payloads}

\* the first candidate: content and parts may each be missing
FirstCandidates ==
    {[content |-> Absent], [content |-> Some([parts |-> Absent])]}
        \cup {[content |-> Some([parts |-> Some(ps)])] : ps \in SeqsUpTo(PartKinds, MaxParts)}

\* a candidate after the first
LaterCandidates ==
    {[content |-> Some([parts |-> Some(<<InlinePart("BBBB")>>)])]}

\* a response that carries candidates
MediaResponses ==
    {[text |-> Absent, candidates |-> Absent], [text |-> Absent, candidates |-> Some(<<>>)]}
        \cup {[text |-> Absent, candidates |-> Some(<<c>>)] : c \in FirstCandidates}
        \cup {[text |-> Absent, candidates |-> Some(<<c, d>>)] :
                  c \in FirstCandidates, d \in LaterCandidates}

ServiceErrors ==
    {JsError("ApiError", "429 quota exceeded"), JsError("TypeError", "fetch failed")}

NoReply == [status |-> "none"]
Fulfilled(r) == [status |-> "fulfilled", response |-> r]
Rejected(e) == [status |-> "rejected", error |-> e]

ResponsesTo(req) ==
    IF req.model \in {"gemini-2.5-flash-image", "gemini-2.5-flash-preview-tts"}
    THEN MediaResponses
    ELSE TextResponses

\* JavaScript truthiness of an optional string
Truthy(optString) == optString # Absent /\ optString[1] # <<>>

\* ------------------------------------------------------------------- state
NoArgs == [none |-> TRUE]
NoRequest == [model |-> "none"]

Config(seed, temperature, responseMimeType, responseModalities) ==
    [seed |-> seed, temperature |-> temperature,
     responseMimeType |-> responseMimeType, responseModalities |-> responseModalities]

Init ==
    /\ pc = "idle"
    /\ op = "none"
    /\ args = NoArgs
    /\ request = NoRequest
    /\ requests = 0
    /\ reply = NoReply
    /\ outcome = Pending
    /\ prevImage = Absent

\* ai.models.generateContent(req): the request leaves, the operation suspends
Send(name, a, req) ==
    /\ pc = "idle"
    /\ pc' = "awaiting"
    /\ op' = name
    /\ args' = a
    /\ request' = req
    /\ requests' = requests + 1
    /\ UNCHANGED <<reply, outcome, prevImage>>

\* the operation's promise settles
Settle(name, result) ==
    /\ pc = "settled"
    /\ op = name
    /\ pc' = "done"
    /\ outcome' = result
    /\ UNCHANGED <<op, args, request, requests, reply, prevImage>>

\* the service fulfils or rejects the pending generateContent promise
ServiceReplies ==
    /\ pc = "awaiting"
    /\ \E r \in {Fulfilled(x) : x \in ResponsesTo(request)} \cup {Rejected(e) : e \in ServiceErrors} :
           reply' = r
    /\ pc' = "settled"
    /\ UNCHANGED <<op, args, request, requests, outcome, prevImage>>

\* ---------------------------------------------------------- 1. getDefinition
getDefinitionStart(term, nativeLang, targetLang) ==
    Send("getDefinition",
         [term |-> term, nativeLang |-> nativeLang, targetLang |-> targetLang],
         [model |-> "gemini-2.5-flash",
          contents |-> [prompt |-> "Define the term", term |-> term,
                        targetLang |-> targetLang, nativeLang |-> nativeLang],
          config |-> Config(Absent, Some(0), Some("application/json"), Absent)])

\* variant: the text is decoded without the check for missing text
getDefinitionResultNoTextCheck(r) ==
    IF r.status = "rejected" THEN Throw(r.error)
    ELSE IF r.response.text = Absent THEN Throw(JsError("SyntaxError", "Unexpected token"))
    ELSE JSONParse(r.response.text[1])

getDefinitionResult(r) ==
    IF r.status = "rejected" THEN Throw(r.error)
    ELSE IF ~Truthy(r.response.text) THEN Throw(JsError("Error", "No definition generated"))
    ELSE JSONParse(r.response.text[1])

getDefinitionResume == Settle("getDefinition", getDefinitionResult(reply))

\* ---------------------------------------------------------- 2. generateImage
\* variant: the term is lower-cased but not trimmed
generateImageSeedNoTrim(term) == getSeed(toLowerCase(term))

generateImageSeed(term) == getSeed(trim(toLowerCase(term)))

generateImageStart(term, targetLang) ==
    Send("generateImage",
         [term |-> term, targetLang |-> targetLang],
         [model |-> "gemini-2.5-flash-image",
          contents |-> [prompt |-> "A simple, bright, pop-art style illustration",
                        term |-> term, targetLang |-> targetLang],
          config |-> Config(Some(generateImageSeed(term)), Absent, Absent, Absent)])

\* response.candidates?.[0]?.content?.parts || []
FirstCandidateParts(response) ==
    IF response.candidates = Absent THEN <<>>
    ELSE IF response.candidates[1] = <<>> THEN <<>>
    ELSE IF response.candidates[1][1].content = Absent THEN <<>>
    ELSE IF response.candidates[1][1].content[1].parts = Absent THEN <<>>
    ELSE response.candidates[1][1].content[1].parts[1]

\* variant: the last part with inline data wins
RECURSIVE ImageLoopLast(_, _)
ImageLoopLast(parts, i) ==
    IF i > Len(parts) THEN JsNull
    ELSE LET rest == ImageLoopLast(parts, i + 1)
         IN  IF rest # JsNull THEN rest
             ELSE IF parts[i].inlineData # Absent
                  THEN JsString(<<"data:image/png;base64,", parts[i].inlineData[1].data>>)
                  ELSE JsNull

\* for (const part of parts) { if (part.inlineData) return `data:...`; } return null;
RECURSIVE ImageLoop(_, _)
ImageLoop(parts, i) ==
    IF i > Len(parts) THEN JsNull
    ELSE IF parts[i].inlineData # Absent
         THEN JsString(<<"data:image/png;base64,", parts[i].inlineData[1].data>>)
         ELSE ImageLoop(parts, i + 1)

\* variant: the catch block rethrows
generateImageResultRethrow(r) ==
    IF r.status = "rejected" THEN Throw(r.error)
    ELSE Return(ImageLoop(FirstCandidateParts(r.response), 1))

generateImageResult(r) ==
    IF r.status = "rejected" THEN Return(JsNull)
    ELSE Return(ImageLoop(FirstCandidateParts(r.response), 1))

\* variant: a failed request is sent again
generateImageResumeRetry ==
    /\ pc = "settled"
    /\ op = "generateImage"
    /\ IF reply.status = "rejected" /\ requests < 2
       THEN /\ pc' = "awaiting"
            /\ requests' = requests + 1
            /\ reply' = NoReply
            /\ UNCHANGED <<op, args, request, outcome, prevImage>>
       ELSE /\ pc' = "done"
            /\ outcome' = generateImageResult(reply)
            /\ UNCHANGED <<op, args, request, requests, reply, prevImage>>

generateImageResume == Settle("generateImage", generateImageResult(reply))

\* --------------------------------------------------------- 3. generateSpeech
generateSpeechStart(text) ==
    Send("generateSpeech",
         [text |-> text],
         [model |-> "gemini-2.5-flash-preview-tts",
          contents |-> [prompt |-> "", text |-> text],
          config |-> Config(Absent, Absent, Absent, Some(<<"AUDIO">>))])

\* response.candidates?.[0]?.content?.parts?.[0]?.inlineData?.data
FirstPartData(response) ==
    LET parts == FirstCandidateParts(response)
    IN  IF parts = <<>> THEN Absent
        ELSE IF parts[1].inlineData = Absent THEN Absent
        ELSE Some(parts[1].inlineData[1].data)

generateSpeechResult(r) ==
    IF r.status = "rejected" THEN Return(JsNull)
    ELSE LET base64Audio == FirstPartData(r.response)
         IN  IF base64Audio # Absent /\ base64Audio[1] # ""
             THEN Return(JsString(<<base64Audio[1]>>))
             ELSE Return(JsNull)

generateSpeechResume == Settle("generateSpeech", generateSpeechResult(reply))

\* ---------------------------------------------------------- 4. generateStory
\* words.join(', ')
RECURSIVE Join(_, _)
Join(words, sep) ==
    IF words = <<>> THEN <<>>
    ELSE IF Len(words) = 1 THEN words[1]
    ELSE words[1] \o sep \o Join(Tail(words), sep)

\* variant: an empty word list is refused before any request
generateStoryStartRejectEmpty(words, nativeLang, targetLang) ==
    IF words = <<>>
    THEN /\ pc = "idle"
         /\ pc' = "done"
         /\ op' = "generateStory"
         /\ args' = [words |-> words, nativeLang |-> nativeLang, targetLang |-> targetLang]
         /\ outcome' = Throw(JsError("Error", "No words given"))
         /\ UNCHANGED <<request, requests, reply, prevImage>>
    ELSE Send("generateStory",
              [words |-> words, nativeLang |-> nativeLang, targetLang |-> targetLang],
              [model |-> "gemini-2.5-flash",
               contents |-> [prompt |-> "Create a short, practical real-life dialogue",
                             words |-> Join(words, <<44, 32>>),
                             targetLang |-> targetLang, nativeLang |-> nativeLang],
               config |-> Config(Absent, Absent, Absent, Absent)])

generateStoryStart(words, nativeLang, targetLang) ==
    Send("generateStory",
         [words |-> words, nativeLang |-> nativeLang, targetLang |-> targetLang],
         [model |-> "gemini-2.5-flash",
          contents |-> [prompt |-> "Create a short, practical real-life dialogue",
                        words |-> Join(words, <<44, 32>>),
                        targetLang |-> targetLang, nativeLang |-> nativeLang],
          config |-> Config(Absent, Absent, Absent, Absent)])

\* variant: a service error is caught and the fallback returned
generateStoryResultCatch(r) ==
    IF r.status = "rejected" THEN Return(JsString(<<"Could not generate dialogue.">>))
    ELSE IF Truthy(r.response.text) THEN Return(JsString(r.response.text[1]))
    ELSE Return(JsString(<<"Could not generate dialogue.">>))

generateStoryResult(r) ==
    IF r.status = "rejected" THEN Throw(r.error)
    ELSE IF Truthy(r.response.text) THEN Return(JsString(r.response.text[1]))
    ELSE Return(JsString(<<"Could not generate dialogue.">>))

generateStoryResume == Settle("generateStory", generateStoryResult(reply))

\* ------------------------------------------------------- 5. getQuickAiAnswer
specificPrompt(type) ==
    CASE type = "natural" -> "Explain the most natural, authentic ways to use the word"
      [] type = "mistake" -> "What are the most common mistakes learners make"
      [] type = "funfact" -> "Tell me a fun fact, etymology, or a tricky mnemonic"
      [] OTHER -> ""

getQuickAiAnswerStart(term, type, nativeLang, targetLang) ==
    Send("getQuickAiAnswer",
         [term |-> term, type |-> type, nativeLang |-> nativeLang, targetLang |-> targetLang],
         [model |-> "gemini-2.5-flash",
          contents |-> [prompt |-> "You are a fun, energetic language tutor.",
                        specificPrompt |-> specificPrompt(type), term |-> term,
                        targetLang |-> targetLang, nativeLang |-> nativeLang],
          config |-> Config(Absent, Some(0), Absent, Absent)])

\* variant: `??` in place of `||`, so that empty text is returned
getQuickAiAnswerResultNullish(r) ==
    IF r.status = "rejected" THEN Throw(r.error)
    ELSE IF r.response.text # Absent THEN Return(JsString(r.response.text[1]))
    ELSE Return(JsString(<<"Could not generate an answer right now.">>))

getQuickAiAnswerResult(r) ==
    IF r.status = "rejected" THEN Throw(r.error)
    ELSE IF Truthy(r.response.text) THEN Return(JsString(r.response.text[1]))
    ELSE Return(JsString(<<"Could not generate an answer right now.">>))

getQuickAiAnswerResume == Settle("getQuickAiAnswer", getQuickAiAnswerResult(reply))

\* ------------------------------------------------------------------ caller
\* the caller takes the outcome; a later invocation starts from a clean slate
CallerContinues ==
    /\ pc = "done"
    /\ pc' = "idle"
    /\ prevImage' = IF op = "generateImage"
                    THEN Some([term |-> args.term, targetLang |-> args.targetLang,
                               seed |-> request.config.seed[1]])
                    ELSE prevImage
    /\ op' = "none"
    /\ args' = NoArgs
    /\ request' = NoRequest
    /\ requests' = 0
    /\ reply' = NoReply
    /\ outcome' = Pending

Next ==
    \/ \E term \in Words, nativeLang \in Langs, targetLang \in Langs :
           getDefinitionStart(term, nativeLang, targetLang)
    \/ getDefinitionResume
    \/ \E term \in Terms, targetLang \in Langs : generateImageStart(term, targetLang)
    \/ generateImageResume
    \/ \E text \in Words : generateSpeechStart(text)
    \/ generateSpeechResume
    \/ \E words \in WordLists, nativeLang \in Langs, targetLang \in Langs :
           generateStoryStart(words, nativeLang, targetLang)
    \/ generateStoryResume
    \/ \E term \in Words, type \in AnswerKinds, nativeLang \in Langs, targetLang \in Langs :
           getQuickAiAnswerStart(term, type, nativeLang, targetLang)
    \/ getQuickAiAnswerResume
    \/ ServiceReplies
    \/ CallerContinues

Spec == Init /\ [][Next]_vars

\* ------------------------------------------------------------------ claims
Done(name) == pc = "done" /\ op = name

IsNonEmptyString(v) == v.type = "string" /\ v.val # <<>>

\* C1: generateImage and generateSpeech never throw: whatever the service
\* does, the operation returns, and when the service raises an error the
\* value returned is null.
C1_MediaNeverThrows ==
    (pc = "done" /\ op \in {"generateImage", "generateSpeech"}) =>
        /\ outcome.kind = "return"
        /\ (reply.status = "rejected" => outcome = Return(JsNull))

C1_Witness ==
    /\ Done("generateImage")
    /\ reply = Rejected(JsError("ApiError", "429 quota exceeded"))
    /\ outcome = Return(JsNull)

\* C2: for getDefinition, generateStory and getQuickAiAnswer an error raised
\* by the service reaches the caller as that same error.
C2_TextErrorsPropagate ==
    (pc = "done" /\ op \in {"getDefinition", "generateStory", "getQuickAiAnswer"}
                 /\ reply.status = "rejected") =>
        outcome = Throw(reply.error)

C2_Witness ==
    /\ Done("generateStory")
    /\ reply = Rejected(JsError("TypeError", "fetch failed"))
    /\ outcome = Throw(JsError("TypeError", "fetch failed"))

\* the value GoodText denotes
GoodValue ==
    JsObject([definition |-> JsString(<<"correr">>),
              examples |-> JsArray(<<JsObject([target |-> JsString(<<"I run">>),
                                               native |-> JsString(<<"Yo corro">>)])>>),
              usageNote |-> JsString(<<"muy comun">>)])

\* C3: when the service call of getDefinition succeeds, missing or empty text
\* raises "No definition generated", non-empty text that is not valid JSON
\* raises a decode failure, and only non-empty valid JSON text yields a
\* returned value, the decoded text.
C3_DefinitionByText ==
    (Done("getDefinition") /\ reply.status = "fulfilled") =>
        LET t == reply.response.text
        IN  /\ (t = Absent \/ t = Some(<<>>)) =>
                   outcome = Throw(JsError("Error", "No definition generated"))
            /\ (t # Absent /\ t[1] \in InvalidJsonTexts) =>
                   (outcome.kind = "throw" /\ outcome.error.name = "SyntaxError")
            /\ (t # Absent /\ t[1] \in ValidJsonTexts) => outcome.kind = "return"
            /\ outcome.kind = "return" => (t # Absent /\ t[1] \in ValidJsonTexts)
            /\ t = Some(GoodText) => outcome = Return(GoodValue)
            /\ t = Some(<<"{", "}">>) => outcome = Return(JsObject(<<>>))
            /\ t = Some(<<"null">>) => outcome = Return(JsNull)

C3_Witness ==
    /\ Done("getDefinition")
    /\ reply.status = "fulfilled"
    /\ reply.response.text = Some(GoodText)
    /\ outcome = Return(GoodValue)

\* the shape of a DefinitionResponse
IsExample(e) ==
    /\ e.type = "object"
    /\ {"target", "native"} \subseteq DOMAIN e.val
    /\ IsNonEmptyString(e.val["target"])
    /\ e.val["native"].type = "string"

WellShaped(v) ==
    /\ v.type = "object"
    /\ {"definition", "examples", "usageNote"} \subseteq DOMAIN v.val
    /\ v.val["definition"].type = "string"
    /\ v.val["usageNote"].type = "string"
    /\ v.val["examples"].type = "array"
    /\ v.val["examples"].val # <<>>
    /\ \A i \in DOMAIN v.val["examples"].val : IsExample(v.val["examples"].val[i])

\* C4: every value getDefinition returns is an object with a string
\* definition, a string usageNote and a non-empty sequence of examples whose
\* targets are non-empty strings; any other response is rejected.
C4_DefinitionWellShaped ==
    (Done("getDefinition") /\ outcome.kind = "return") => WellShaped(outcome.value)

Fallback(name) ==
    IF name = "generateStory"
    THEN <<"Could not generate dialogue.">>
    ELSE <<"Could not generate an answer right now.">>

\* C5: whenever the service call succeeds, generateStory and getQuickAiAnswer
\* return a non-empty string: the service's text when it is non-empty, and
\* otherwise the operation's fixed fallback.
C5_TextOrFallback ==
    (pc = "done" /\ op \in {"generateStory", "getQuickAiAnswer"} /\ reply.status = "fulfilled") =>
        LET t == reply.response.text
        IN  /\ outcome.kind = "return"
            /\ IsNonEmptyString(outcome.value)
            /\ (t # Absent /\ t[1] # <<>>) => outcome.value.val = t[1]
            /\ (t = Absent \/ t = Some(<<>>)) => outcome.value.val = Fallback(op)

C5_Witness ==
    /\ Done("getQuickAiAnswer")
    /\ reply.status = "fulfilled"
    /\ reply.response.text = Some(<<>>)
    /\ outcome = Return(JsString(<<"Could not generate an answer right now.">>))

\* C6 as stated: generateStory called with an empty word list never throws,
\* whatever the service does: it resolves to a non-empty dialogue or to the
\* fallback.
C6_EmptyWordsNeverThrows ==
    (Done("generateStory") /\ args.words = <<>>) =>
        (outcome.kind = "return" /\ IsNonEmptyString(outcome.value))

\* C6 amended: generateStory called with an empty word list throws only when
\* the service call itself fails, and then with the service's error; whenever
\* the service call succeeds it resolves to a non-empty dialogue or to the
\* fallback string.
C6_EmptyWordsThrowsOnlyServiceError ==
    (Done("generateStory") /\ args.words = <<>>) =>
        /\ reply.status = "fulfilled" =>
               /\ outcome.kind = "return"
               /\ IsNonEmptyString(outcome.value)
               /\ outcome.value.val = Fallback("generateStory")
                      \/ (reply.response.text # Absent
                             /\ outcome.value.val = reply.response.text[1])
        /\ outcome.kind = "throw" =>
               (reply.status = "rejected" /\ outcome.error = reply.error)

C6_Witness ==
    /\ Done("generateStory")
    /\ args.words = <<>>
    /\ reply.status = "fulfilled"
    /\ reply.response.text = Absent
    /\ outcome = Return(JsString(<<"Could not generate dialogue.">>))

\* C7: the seed generateImage sends depends on the lower-cased, trimmed term
\* only: it is the seed sent for the normalized term, and any earlier call
\* whose term normalizes to the same string sent the same seed, whatever its
\* targetLang.
C7_SeedOfNormalizedTerm ==
    (pc # "idle" /\ op = "generateImage" /\ prevImage # Absent) =>
        /\ prevImage[1].term = trim(toLowerCase(args.term)) =>
               request.config.seed[1] = prevImage[1].seed
        /\ trim(toLowerCase(prevImage[1].term)) = trim(toLowerCase(args.term)) =>
               request.config.seed[1] = prevImage[1].seed

C7_Witness ==
    /\ pc = "awaiting"
    /\ op = "generateImage"
    /\ args.term = <<32, 65>>
    /\ prevImage # Absent
    /\ prevImage[1].term = <<97>>
    /\ prevImage[1].targetLang # args.targetLang
    /\ request.config.seed[1] = prevImage[1].seed

\* C8: every invocation makes exactly one request to the service, whether
\* the request succeeds, fails or returns nothing: never a second attempt,
\* never a completed invocation without a request.
C8_ExactlyOneRequest ==
    /\ requests <= 1
    /\ pc # "idle" => requests = 1

C8_Witness ==
    /\ Done("generateImage")
    /\ reply.status = "rejected"
    /\ requests = 1

\* C9: getSeed returns a non-negative integer that fits in a 32-bit signed
\* integer (0 <= seed <= 2^31 - 1), also when the final accumulator is -2^31.
C9_SeedFitsInt32 ==
    (pc # "idle" /\ op = "generateImage") =>
        /\ request.config.seed[1][1] >= 0
        /\ request.config.seed[1][1] <= 32767
        /\ request.config.seed[1][2] \in 0..65535

\* the parts of the first candidate, [] when anything on the way is missing
PartsLookedAt(response) ==
    IF /\ response.candidates # Absent
       /\ Len(response.candidates[1]) >= 1
       /\ Head(response.candidates[1]).content # Absent
       /\ Head(response.candidates[1]).content[1].parts # Absent
    THEN Head(response.candidates[1]).content[1].parts[1]
    ELSE <<>>

\* C10: when the service call of generateImage succeeds the result is null
\* exactly when the first candidate has no part with inline data, and is
\* otherwise "data:image/png;base64," followed by the payload of the first
\* such part, in order; later parts are ignored.
C10_FirstInlinePart ==
    (Done("generateImage") /\ reply.status = "fulfilled") =>
        LET parts == PartsLookedAt(reply.response)
            inline == {i \in DOMAIN parts : parts[i].inlineData # Absent}
        IN  /\ outcome.kind = "return"
            /\ inline = {} <=> outcome.value = JsNull
            /\ inline # {} =>
                   LET first == CHOOSE i \in inline : \A j \in inline : i <= j
                   IN  outcome.value =
                           JsString(<<"data:image/png;base64,", parts[first].inlineData[1].data>>)

C10_Witness ==
    /\ Done("generateImage")
    /\ reply.status = "fulfilled"
    /\ PartsLookedAt(reply.response) = <<TextPart, InlinePart("AAAA")>>
    /\ Len(reply.response.candidates[1]) = 2
    /\ outcome = Return(JsString(<<"data:image/png;base64,", "AAAA">>))

====
